---------------------------- MODULE Spec2Model ----------------------------
(***************************************************************************)
(* Stack construction of personal-website-cdk as a state machine.          *)
(*                                                                         *)
(* lib/personal_website-stack.ts holds several generations of the stack:   *)
(*   "keyed"      props.primaryDomain + props.domainConfigs  (l. 242-573)  *)
(*   "subdomain"  primaryDomainConfig + secondaryDomainConfigs (l. 1-240)  *)
(*   "shared"     one distribution for all domains          (l. 1060-1166) *)
(*   "single"     one domain, home zone and SES events      (l. 575-1058)  *)
(* A behaviour runs the app: Init fixes the props, every action is a       *)
(* section of the constructor body, `tree` is the construct tree the       *)
(* `new X(this, id, ...)` calls build, and `plan` is the tree the app      *)
(* emitted when the constructor last returned, on props `planProps`.       *)
(* AddressRecords and                                                      *)
(* createSesSqsDestination are also run on their own, on every props value *)
(* their types accept; `ret` is what such a call returned.  Strings are    *)
(* TLA+ strings, so joins and template literals are computed, not assumed. *)
(***************************************************************************)
EXTENDS Integers, Sequences, FiniteSets, TLC

VARIABLES props, pc, idx, tree, plan, planProps, ret

vars == <<props, pc, idx, tree, plan, planProps, ret>>

----------------------------------------------------------------------------
(* Bounds of the model *)

\* longest list of apex domains a configuration names
MaxDomains == 3
\* most explicitly configured DNS records in one configuration
MaxRecords == 1

----------------------------------------------------------------------------
(* JavaScript values *)

\* the value `undefined` (an omitted optional property)
Undefined == "<undefined>"

\* truthiness of a string | undefined, as in `n => n` and `a || b`
Truthy(s) == s # Undefined /\ s # ""

\* `${s}` in a template literal
Str(s) == IF s = Undefined THEN "undefined" ELSE s

RECURSIVE join(_, _)
\* Array.prototype.join
join(parts, sep) ==
  IF Len(parts) = 0 THEN ""
  ELSE IF Len(parts) = 1 THEN Str(parts[1])
  ELSE Str(parts[1]) \o sep \o join(Tail(parts), sep)

\* a bug: joins without dropping the empty parts
domainJoin_keepEmpty(parts) == join(parts, ".")

\* domainJoin(parts) { return parts.filter(n => n).join('.') }
domainJoin(parts) == join(SelectSeq(parts, Truthy), ".")

\* String.prototype.toLowerCase on the stack ids the app uses
toLowerCase(s) ==
  CASE s = "PersonalWebsiteStack" -> "personalwebsitestack"
    [] OTHER -> s

RECURSIVE Range(_)
Range(seq) == IF Len(seq) = 0 THEN {} ELSE {Head(seq)} \cup Range(Tail(seq))

----------------------------------------------------------------------------
(* The construct tree *)

EmptyTree ==
  [ ids      |-> {},      \* construct ids in the stack's scope
    failed   |-> FALSE,   \* a constructor threw
    error    |-> Undefined, \* the construct name the thrown error reports
    alarmActions |-> <<>>, \* this.alarmActions: <<>> until assigned, then <<actions>>
    zones    |-> {},      \* route53.PublicHostedZone
    records  |-> {},      \* route53.MxRecord / CnameRecord / TxtRecord
    buckets  |-> {},      \* s3.Bucket
    certs    |-> {},      \* acm.Certificate
    dists    |-> {},      \* cloudfront.Distribution
    aliases  |-> {},      \* route53.ARecord with an alias target
    alarms   |-> {},      \* cloudwatch.Alarm
    topics   |-> {},      \* sns.Topic of an SES event destination
    queues   |-> {},      \* sqs.Queue
    destinations |-> {},  \* ses.ConfigurationSetEventDestination
    custom   |-> {},      \* cr.AwsCustomResource
    policies |-> {},      \* iam.Policy
    others   |-> {} ]     \* topics, identities, functions

\* a bug: a construct replaces an earlier one of the same id silently
Construct_overwrite(t, id, field, res) ==
  IF t.failed THEN t
  ELSE [t EXCEPT !.ids = @ \cup {id}, ![field] = @ \cup {res}]

\* new X(this, id, props): the scope refuses a second construct of the same
\* id by throwing, and nothing after the throw runs
Construct(t, id, field, res) ==
  IF t.failed THEN t
  ELSE IF id \in t.ids THEN [t EXCEPT !.failed = TRUE, !.error = id]
  ELSE [t EXCEPT !.ids = @ \cup {id}, ![field] = @ \cup {res}]


\* Array.prototype.map
MapSeq(f(_), seq) == [i \in 1..Len(seq) |-> f(seq[i])]

RECURSIVE ConstructAll(_, _, _)
\* forEach(x => new X(this, x.id, x)): the constructs of `seq`, in order
ConstructAll(t, field, seq) ==
  IF Len(seq) = 0 THEN t
  ELSE ConstructAll(Construct(t, Head(seq).id, field, Head(seq)), field, Tail(seq))

----------------------------------------------------------------------------
(* The keyed variant: resources (l. 392-572) *)

\* the three DKIM tokens of an ses.EmailIdentity
DkimCount == 3

\* a bug: the log bucket keeps its objects for ever
accessLogBucket_noExpiry(id) ==
  [ id |-> "access-logs-bucket",
    bucketName |-> toLowerCase(id) \o "-access-logs",
    blockPublicAccess |-> TRUE,
    websiteRedirect |-> Undefined,
    expirationDays |-> 0 ]

\* new s3.Bucket(this, `access-logs-bucket`, ...)
accessLogBucket(id) ==
  [ id |-> "access-logs-bucket",
    bucketName |-> toLowerCase(id) \o "-access-logs",
    blockPublicAccess |-> TRUE,
    websiteRedirect |-> Undefined,
    expirationDays |-> 30 ]

\* alarmConfigs
alarmNames == <<"SES Sends", "SES Rejects", "SES Bounce Rate", "SES Complaint Rate">>

\* new cloudwatch.Alarm(this, `${props.alarmName} Alarm`, props).addAlarmAction(...)
sesAlarm(alarmName) ==
  [ id |-> alarmName \o " Alarm", alarmName |-> alarmName, actions |-> {"AlarmTopic"} ]

\* a bug: every zone is given the primary domain's name
hostedZone_primaryName(domain) ==
  [ id |-> Str(domain), zoneName |-> "example.com" ]

\* new route53.PublicHostedZone(this, domain, { zoneName: domain })
hostedZone(domain) == [ id |-> Str(domain), zoneName |-> domain ]

\* a bug: the record is given an id that does not name its kind
configuredRecord_noKind(kind, domain, recordProps) ==
  [ id |-> domainJoin(<<recordProps.recordName, domain>>),
    kind |-> kind, zone |-> domain,
    recordName |-> recordProps.recordName,
    data |-> recordProps.data, ttl |-> recordProps.ttl ]

\* a bug: every configured record is put in the primary domain's zone
configuredRecord_primaryZone(kind, domain, recordProps) ==
  [ id |-> domainJoin(<<recordProps.recordName, domain>>) \o "-" \o kind,
    kind |-> kind, zone |-> "example.com",
    recordName |-> recordProps.recordName,
    data |-> recordProps.data, ttl |-> recordProps.ttl ]

\* new route53.MxRecord(this, `${this.domainJoin([recordProps.recordName, domain])}-mx`,
\*                      { zone, ...recordProps })   (and -cname, -txt)
configuredRecord(kind, domain, recordProps) ==
  [ id |-> domainJoin(<<recordProps.recordName, domain>>) \o "-" \o kind,
    kind |-> kind, zone |-> domain,
    recordName |-> recordProps.recordName,
    data |-> recordProps.data, ttl |-> recordProps.ttl ]

\* const siteBucket = new s3.Bucket(this, `${websiteDomain}-origin-bucket`, ...)
siteBucket(websiteDomain) ==
  [ id |-> Str(websiteDomain) \o "-origin-bucket",
    bucketName |-> Str(websiteDomain),
    blockPublicAccess |-> TRUE,
    websiteRedirect |-> Undefined,
    expirationDays |-> 0 ]

\* a bug: the certificate is issued for the zone's name
certificate_zoneName(zone, websiteDomain) ==
  [ id |-> Str(websiteDomain) \o "-cert",
    domainName |-> zone,
    subjectAlternativeNames |-> <<>>,
    validation |-> zone ]

\* const certificate = new acm.Certificate(this, `${websiteDomain}-cert`, ...)
certificate(zone, websiteDomain) ==
  [ id |-> Str(websiteDomain) \o "-cert",
    domainName |-> websiteDomain,
    subjectAlternativeNames |-> <<>>,
    validation |-> zone ]

\* certificate.metricDaysToExpiry().createAlarm(this, `${domain}-cert Expiry Alarm`, ...)
certExpiryAlarm(domain) ==
  [ id |-> Str(domain) \o "-cert Expiry Alarm",
    alarmName |-> Str(domain) \o "-cert Expiry Alarm",
    actions |-> {} ]

\* const distribution = new cloudfront.Distribution(this, `${websiteDomain}-dist`, ...)
distribution(websiteDomain, logBucket) ==
  [ id |-> Str(websiteDomain) \o "-dist",
    domainNames |-> <<websiteDomain>>,
    certificate |-> certificate("", websiteDomain).id,
    origin |-> siteBucket(websiteDomain).id,
    logBucket |-> logBucket ]

\* a bug: the record is named after its zone, not after the name it routes
aliasRecord_zoneName(zone, name, dist) ==
  [ id |-> Str(name) \o "-to-cf", type |-> "A", zone |-> zone,
    recordName |-> zone, target |-> dist ]

\* new route53.ARecord(this, `${name}-to-cf`, { zone, recordName: name,
\*   target: RecordTarget.fromAlias(new CloudFrontTarget(dist)) })
aliasRecord(zone, name, dist) ==
  [ id |-> Str(name) \o "-to-cf", type |-> "A", zone |-> zone,
    recordName |-> name, target |-> dist ]

\* a bug: the redirecting subdomains are dropped
alternateNames_none(redirectingSubdomains, domain) == <<>>

\* a bug: every redirecting subdomain is joined to the primary domain
alternateNames_primary(redirectingSubdomains, domain) ==
  LET name(subdomain) == domainJoin(<<subdomain, props.primaryDomain>>)
  IN  MapSeq(name, redirectingSubdomains)

\* const alternateNames = redirectingSubdomains?.map(subdomain =>
\*                          this.domainJoin([subdomain, domain]))
alternateNames(redirectingSubdomains, domain) ==
  LET name(subdomain) == domainJoin(<<subdomain, domain>>)
  IN  MapSeq(name, redirectingSubdomains)

\* a bug: the bucket redirects to the domain it is named after
redirectBucket_self(domain, targetDomain) ==
  [ id |-> Str(domain) \o "-redirect-bucket",
    bucketName |-> domain,
    blockPublicAccess |-> FALSE,
    websiteRedirect |-> domain,
    expirationDays |-> 0 ]

\* a bug: the bucket redirects to the primary apex, itself a redirecting host
redirectBucket_toApex(domain, targetDomain) ==
  [ id |-> Str(domain) \o "-redirect-bucket",
    bucketName |-> domain,
    blockPublicAccess |-> FALSE,
    websiteRedirect |-> "example.com",
    expirationDays |-> 0 ]

\* const redirectBucket = new s3.Bucket(this, `${domain}-redirect-bucket`,
\*   { bucketName: domain, websiteRedirect: { hostName: targetDomain } })
redirectBucket(domain, targetDomain) ==
  [ id |-> Str(domain) \o "-redirect-bucket",
    bucketName |-> domain,
    blockPublicAccess |-> FALSE,
    websiteRedirect |-> targetDomain,
    expirationDays |-> 0 ]

\* a bug: the certificate leaves out the alternate names
redirectCertificate_apexOnly(zone, domain, alternates) ==
  [ id |-> Str(domain) \o "-cert",
    domainName |-> domain,
    subjectAlternativeNames |-> <<>>,
    validation |-> zone ]

\* const redirectCertificate = new acm.Certificate(this, `${domain}-cert`, ...)
redirectCertificate(zone, domain, alternates) ==
  [ id |-> Str(domain) \o "-cert",
    domainName |-> domain,
    subjectAlternativeNames |-> alternates,
    validation |-> zone ]

\* a bug: the distribution answers for the alternate names only
redirectDistribution_noApex(domain, alternates, logBucket) ==
  [ id |-> Str(domain) \o "-dist",
    domainNames |-> alternates,
    certificate |-> Str(domain) \o "-cert",
    origin |-> Str(domain) \o "-redirect-bucket",
    logBucket |-> logBucket ]

\* const redirectDistribution = new cloudfront.Distribution(this, `${domain}-dist`, ...)
redirectDistribution(domain, alternates, logBucket) ==
  [ id |-> Str(domain) \o "-dist",
    domainNames |-> <<domain>> \o alternates,
    certificate |-> redirectCertificate("", domain, alternates).id,
    origin |-> redirectBucket(domain, "").id,
    logBucket |-> logBucket ]

\* createWebHostingInfra(zone, websiteDomain, accessLogBucket)
createWebHostingInfra(t, zone, websiteDomain, logBucket) ==
  LET t1 == Construct(t, siteBucket(websiteDomain).id, "buckets", siteBucket(websiteDomain))
      t2 == Construct(t1, certificate(zone, websiteDomain).id, "certs",
                      certificate(zone, websiteDomain))
      t3 == Construct(t2, certExpiryAlarm(websiteDomain).id, "alarms",
                      certExpiryAlarm(websiteDomain))
      t4 == Construct(t3, "url-rewrite-fn", "others", [id |-> "url-rewrite-fn"])
      t5 == Construct(t4, distribution(websiteDomain, logBucket).id, "dists",
                      distribution(websiteDomain, logBucket))
  IN  \* direct route for website
      Construct(t5, aliasRecord(zone, websiteDomain, "").id, "aliases",
                aliasRecord(zone, websiteDomain, distribution(websiteDomain, logBucket).id))

\* createDomainRedirectInfra(zone, domain, targetDomain, accessLogBucket,
\*                           redirectingSubdomains = [])
createDomainRedirectInfra(t, zone, domain, targetDomain, logBucket, redirectingSubdomains) ==
  LET alternates == alternateNames(redirectingSubdomains, domain)
      dist == redirectDistribution(domain, alternates, logBucket)
      t1 == Construct(t, redirectBucket(domain, targetDomain).id, "buckets",
                      redirectBucket(domain, targetDomain))
      t2 == Construct(t1, redirectCertificate(zone, domain, alternates).id, "certs",
                      redirectCertificate(zone, domain, alternates))
      t3 == Construct(t2, certExpiryAlarm(domain).id, "alarms", certExpiryAlarm(domain))
      t4 == Construct(t3, dist.id, "dists", dist)
      \* route for domain name to redirect distribution
      t5 == Construct(t4, aliasRecord(zone, domain, dist.id).id, "aliases",
                      aliasRecord(zone, domain, dist.id))
      route(alternateName) == aliasRecord(zone, alternateName, dist.id)
  IN  \* route for alternate domain names to redirect distribution
      ConstructAll(t5, "aliases", MapSeq(route, alternates))

\* createFromEmailInfra(zone, domain, dmarc_rua)
createFromEmailInfra(t, zone, domain, dmarc_rua) ==
  LET fromDomain == domainJoin(<<"mail", domain>>)
      dkim(index) ==
        [ id |-> Str(domain) \o "-dkim" \o ToString(index) \o "-cname",
          kind |-> "cname", zone |-> zone,
          recordName |-> "dkim" \o ToString(index) \o "._domainkey." \o Str(domain) \o ".",
          data |-> "dkim" \o ToString(index), ttl |-> Undefined ]
      t1 == Construct(t, "Email-" \o Str(domain), "others", [id |-> "Email-" \o Str(domain)])
      t2 == ConstructAll(t1, "records", [i \in 1..DkimCount |-> dkim(i)])
      t3 == Construct(t2, Str(fromDomain) \o "-spf", "records",
              [ id |-> Str(fromDomain) \o "-spf", kind |-> "txt", zone |-> zone,
                recordName |-> Str(fromDomain) \o ".",
                data |-> "v=spf1 include:amazonses.com ~all", ttl |-> Undefined ])
      t4 == Construct(t3, Str(domain) \o "-dmarc", "records",
              [ id |-> Str(domain) \o "-dmarc", kind |-> "txt", zone |-> zone,
                recordName |-> "_dmarc." \o Str(domain) \o ".",
                data |-> "v=DMARC1;p=quarantine;rua=" \o dmarc_rua, ttl |-> Undefined ])
  IN  Construct(t4, Str(domain) \o "-mx", "records",
              [ id |-> Str(domain) \o "-mx", kind |-> "mx", zone |-> zone,
                recordName |-> Str(fromDomain) \o ".",
                data |-> "feedback-smtp", ttl |-> Undefined ])

----------------------------------------------------------------------------
(* Configurations *)

\* apex domains a configuration may name
Domains == {"example.com", "example.net", "example.org"}

\* the domain a configuration names as primary
PrimaryDomains == {"example.com"}

\* values of props.websiteSubdomain
Subdomains == {"www", ""}

\* recordName of a configured record: omitted (the apex), or a subdomain
RecordNames == {Undefined, "www", "home"}

RecordKinds == {"mx", "cname", "txt"}

\* a configured record and the entry of the domain list it is configured under
PlacedRecords(n) ==
  [ at: 1..n, kind: RecordKinds, recordName: RecordNames, data: {"v1"}, ttl: {"1h"} ]

\* lists of pairwise distinct domains (the keys of an object literal)
DomainLists(n) ==
  UNION { {ds \in [1..k -> Domains] : \A i, j \in 1..k : ds[i] = ds[j] => i = j} : k \in 0..n }

\* lists of domains, repeats allowed (an array literal)
DomainArrays(n) == UNION { [1..k -> Domains] : k \in 0..n }

RECURSIVE PlacementsFrom(_, _, _)
\* lists of at most k placed records in the order of the entries they are under
PlacementsFrom(n, k, first) ==
  {<<>>} \cup
  IF k = 0 THEN {}
  ELSE UNION { {<<r>> \o rest : rest \in PlacementsFrom(n, k - 1, r.at)} :
               r \in {x \in PlacedRecords(n) : x.at >= first} }

\* the record lists of a configuration of n entries
Placements == [n \in 0..MaxDomains |-> PlacementsFrom(n, MaxRecords, 1)]

RECURSIVE RecordsAt(_, _, _)
\* the records of `placed` configured under entry `i` with `kind`, in order
RecordsAt(placed, i, kind) ==
  IF Len(placed) = 0 THEN <<>>
  ELSE LET p == Head(placed)
           rest == RecordsAt(Tail(placed), i, kind)
       IN  IF p.at = i /\ p.kind = kind
           THEN <<[recordName |-> p.recordName, data |-> p.data, ttl |-> p.ttl]>> \o rest
           ELSE rest

\* one entry of props.domainConfigs: a key and its DomainRecords
DomainRecords(ds, placed, i) ==
  [ domain       |-> ds[i],
    MxRecords    |-> RecordsAt(placed, i, "mx"),
    CnameRecords |-> RecordsAt(placed, i, "cname"),
    TxtRecords   |-> RecordsAt(placed, i, "txt") ]

\* PersonalWebsiteStackProps of the keyed variant, as bin/personal_website.ts builds them
KeyedProps(sub, primary, ds, placed) ==
  [ variant          |-> "keyed",
    id               |-> "PersonalWebsiteStack",
    websiteSubdomain |-> sub,
    homeSubdomain    |-> "home",
    alarmEmail       |-> "alarm@example.com",
    primaryDomain    |-> primary,
    domainConfigs    |-> [i \in 1..Len(ds) |-> DomainRecords(ds, placed, i)] ]

\* new PersonalWebsiteStack(app, 'PersonalWebsiteStack', { ... }) of the keyed variant
Init_keyed ==
  \E ds \in DomainLists(MaxDomains) :
    \E sub \in Subdomains, primary \in PrimaryDomains, placed \in Placements[Len(ds)] :
      props = KeyedProps(sub, primary, ds, placed)

----------------------------------------------------------------------------
(* The keyed variant: constructor (l. 271-390) *)

\* const websiteDomain = this.domainJoin([props.websiteSubdomain,props.primaryDomain])
websiteDomain == domainJoin(<<props.websiteSubdomain, props.primaryDomain>>)

\* const homeDomain = this.domainJoin([props.homeSubdomain,props.primaryDomain])
homeDomain == domainJoin(<<props.homeSubdomain, props.primaryDomain>>)

\* the section of a constructor ends: by a throw, or by reaching the next one
Advance(t, next) ==
  /\ tree' = t
  /\ pc' = IF t.failed THEN "failed" ELSE next
  /\ UNCHANGED <<plan, planProps, ret>>

\* l. 275-353: the log bucket, the alarm topic and the SES account alarms
Begin ==
  /\ pc = "start"
  /\ props.variant = "keyed"
  /\ LET t1 == Construct(tree, accessLogBucket(props.id).id, "buckets",
                         accessLogBucket(props.id))
         t2 == Construct(t1, "AlarmTopic", "others", [id |-> "AlarmTopic"])
         t3 == ConstructAll(t2, "alarms", MapSeq(sesAlarm, alarmNames))
     IN  Advance(t3, "domains")
  /\ idx' = 1
  /\ UNCHANGED props

\* a bug: the primary domain is given no redirect of its own
domainInfra_noPrimaryRedirect(t, zone, domain) ==
  IF domain = props.primaryDomain
  THEN createFromEmailInfra(
         createWebHostingInfra(t, zone, websiteDomain, "access-logs-bucket"),
         zone, homeDomain, "mailto:postmaster@" \o Str(props.primaryDomain))
  ELSE createDomainRedirectInfra(t, zone, domain, websiteDomain,
                                 "access-logs-bucket", <<props.websiteSubdomain>>)

\* l. 372-388: what a domain gets beside its zone and records
domainInfra(t, zone, domain) ==
  IF domain = props.primaryDomain
  THEN LET \* Website hosting
           t1 == createWebHostingInfra(t, zone, websiteDomain, "access-logs-bucket")
           \* Website redirection for domain only as website subdomain is used above
           t2 == createDomainRedirectInfra(t1, zone, domain, websiteDomain,
                                           "access-logs-bucket", <<>>)
       IN  \* Home machine email infra
           createFromEmailInfra(t2, zone, homeDomain,
                                "mailto:postmaster@" \o Str(props.primaryDomain))
  ELSE \* Website redirection for domain and website subdomain
       createDomainRedirectInfra(t, zone, domain, websiteDomain,
                                 "access-logs-bucket", <<props.websiteSubdomain>>)

\* l. 356-389: the callback of Object.entries(props.domainConfigs).map on entry idx
ProcessDomain ==
  /\ pc = "domains"
  /\ props.variant = "keyed"
  /\ idx <= Len(props.domainConfigs)
  /\ LET domain  == props.domainConfigs[idx].domain
         records == props.domainConfigs[idx]
         mx(recordProps)    == configuredRecord("mx", domain, recordProps)
         cname(recordProps) == configuredRecord("cname", domain, recordProps)
         txt(recordProps)   == configuredRecord("txt", domain, recordProps)
         \* Creates hosted zones
         t1 == Construct(tree, hostedZone(domain).id, "zones", hostedZone(domain))
         \* Creates requested DNS records for each domain
         t2 == ConstructAll(t1, "records", MapSeq(mx, records.MxRecords))
         t3 == ConstructAll(t2, "records", MapSeq(cname, records.CnameRecords))
         t4 == ConstructAll(t3, "records", MapSeq(txt, records.TxtRecords))
     IN  Advance(domainInfra(t4, domain, domain), "domains")
  /\ idx' = idx + 1
  /\ UNCHANGED props

\* l. 389-390: the entries are exhausted and the constructor returns
Finish ==
  /\ pc = "domains"
  /\ props.variant = "keyed"
  /\ idx > Len(props.domainConfigs)
  /\ pc' = "done"
  /\ UNCHANGED <<props, idx, tree, plan, planProps, ret>>

----------------------------------------------------------------------------
(* The per-subdomain variant (l. 13-240) *)

\* the key of a record map: '' names the apex
SubdomainKey(recordName) == IF recordName = Undefined THEN "" ELSE recordName

RECURSIVE EntriesAt(_, _, _)
\* Object.entries of the record map of entry `i` for `kind`, in insertion order
EntriesAt(placed, i, kind) ==
  IF Len(placed) = 0 THEN <<>>
  ELSE LET p == Head(placed)
           rest == EntriesAt(Tail(placed), i, kind)
       IN  IF p.at = i /\ p.kind = kind
           THEN <<[subdomain |-> SubdomainKey(p.recordName), data |-> p.data, ttl |-> p.ttl]>>
                \o rest
           ELSE rest

\* the keys of an object literal are pairwise distinct
DistinctKeys(entries) ==
  \A i, j \in 1..Len(entries) : entries[i].subdomain = entries[j].subdomain => i = j

\* interface DomainConfig
DomainConfig(ds, placed, i) ==
  [ domain                |-> ds[i],
    subdomainMxRecords    |-> EntriesAt(placed, i, "mx"),
    subdomainCnameRecords |-> EntriesAt(placed, i, "cname"),
    subdomainTxtRecords   |-> EntriesAt(placed, i, "txt") ]

\* PersonalWebsiteStackProps of the per-subdomain variant; entry 1 of `ds` is
\* the primary domain's, the rest are the secondary domains'
SubdomainProps(sub, ds, placed) ==
  [ variant                |-> "subdomain",
    id                     |-> "PersonalWebsiteStack",
    websiteSubdomain       |-> sub,
    homeSubdomain          |-> "home",
    primaryDomainConfig    |-> DomainConfig(ds, placed, 1),
    secondaryDomainConfigs |-> [i \in 1..(Len(ds) - 1) |-> DomainConfig(ds, placed, i + 1)] ]

\* new PersonalWebsiteStack(app, 'PersonalWebsiteStack', { ... }) of the
\* per-subdomain variant (part_002)
Init_subdomain ==
  \E ds \in DomainArrays(MaxDomains) \ {<<>>} :
    \E sub \in Subdomains, placed \in Placements[Len(ds)] :
      /\ ds[1] \in PrimaryDomains
      /\ \A i \in 1..Len(ds), k \in RecordKinds : DistinctKeys(EntriesAt(placed, i, k))
      /\ props = SubdomainProps(sub, ds, placed)

\* [props.primaryDomainConfig, ...props.secondaryDomainConfigs]
allDomainConfigs == <<props.primaryDomainConfig>> \o props.secondaryDomainConfigs

\* function getRecordName(subdomain)
getRecordName(domain, subdomain) ==
  IF Truthy(subdomain) THEN Str(subdomain) \o "." \o Str(domain) ELSE domain

\* l. 52-59 and 69-77: ({ zone, recordName: getRecordName(subdomain), ...recordData })
\* created under the id `${recordProps.recordName || apexDomain}-mx`
subdomainRecord(kind, domain, entry) ==
  LET recordName == getRecordName(domain, entry.subdomain)
  IN  [ id |-> Str(IF Truthy(recordName) THEN recordName ELSE domain) \o "-" \o kind,
        kind |-> kind, zone |-> domain,
        recordName |-> recordName,
        data |-> entry.data, ttl |-> entry.ttl ]

\* const websiteDomain = `${props.websiteSubdomain}.${props.primaryDomainConfig.domain}`
websiteDomain_subdomain ==
  Str(props.websiteSubdomain) \o "." \o Str(props.primaryDomainConfig.domain)

\* const homeDomain = `${props.homeSubdomain}.${props.primaryDomainConfig.domain}`
homeDomain_subdomain ==
  Str(props.homeSubdomain) \o "." \o Str(props.primaryDomainConfig.domain)

\* a bug: the redirecting subdomains are dropped
alternateNames_subdomain_none(redirectingSubdomains, apexDomain) == <<>>

\* const alternateNames = redirectingSubdomains.map(subdomain =>
\*                          `${subdomain}.${apexDomain}`)
alternateNames_subdomain(redirectingSubdomains, apexDomain) ==
  LET name(subdomain) == Str(subdomain) \o "." \o Str(apexDomain)
  IN  MapSeq(name, redirectingSubdomains)

\* createWebHostingInfra(websiteDomain, zone, accessLogBucket), l. 116-177
createWebHostingInfra_subdomain(t, wsDomain, zone, logBucket) ==
  LET t1 == Construct(t, siteBucket(wsDomain).id, "buckets", siteBucket(wsDomain))
      t2 == Construct(t1, certificate(zone, wsDomain).id, "certs", certificate(zone, wsDomain))
      t3 == Construct(t2, "url-rewrite-fn", "others", [id |-> "url-rewrite-fn"])
      t4 == Construct(t3, distribution(wsDomain, logBucket).id, "dists",
                      distribution(wsDomain, logBucket))
  IN  Construct(t4, aliasRecord(zone, wsDomain, "").id, "aliases",
                aliasRecord(zone, wsDomain, distribution(wsDomain, logBucket).id))

\* createDomainRedirectInfra(apexDomain, redirectingSubdomains, targetDomain, zone,
\*                           accessLogBucket), l. 188-239
createDomainRedirectInfra_subdomain(t, apexDomain, redirectingSubdomains, targetDomain, zone, logBucket) ==
  LET alternates == alternateNames_subdomain(redirectingSubdomains, apexDomain)
      dist == redirectDistribution(apexDomain, alternates, logBucket)
      t1 == Construct(t, redirectBucket(apexDomain, targetDomain).id, "buckets",
                      redirectBucket(apexDomain, targetDomain))
      t2 == Construct(t1, redirectCertificate(zone, apexDomain, alternates).id, "certs",
                      redirectCertificate(zone, apexDomain, alternates))
      t3 == Construct(t2, dist.id, "dists", dist)
      t4 == Construct(t3, aliasRecord(zone, apexDomain, dist.id).id, "aliases",
                      aliasRecord(zone, apexDomain, dist.id))
      route(alternateName) == aliasRecord(zone, alternateName, dist.id)
  IN  ConstructAll(t4, "aliases", MapSeq(route, alternates))

\* l. 38-64: the callbacks of the .map that fills domainConfigMap create the zones
Zones_subdomain ==
  /\ pc = "start"
  /\ props.variant = "subdomain"
  /\ LET zone(config) == hostedZone(config.domain)
     IN  Advance(ConstructAll(tree, "zones", MapSeq(zone, allDomainConfigs)), "records")
  /\ UNCHANGED <<props, idx>>

RECURSIVE domainRecords_subdomain(_, _)
\* l. 68-78: domainConfigMap.forEach creates the requested records of each domain
domainRecords_subdomain(t, configs) ==
  IF Len(configs) = 0 THEN t
  ELSE LET config == Head(configs)
           mx(entry)    == subdomainRecord("mx", config.domain, entry)
           cname(entry) == subdomainRecord("cname", config.domain, entry)
           txt(entry)   == subdomainRecord("txt", config.domain, entry)
           t1 == ConstructAll(t, "records", MapSeq(mx, config.subdomainMxRecords))
           t2 == ConstructAll(t1, "records", MapSeq(cname, config.subdomainCnameRecords))
           t3 == ConstructAll(t2, "records", MapSeq(txt, config.subdomainTxtRecords))
       IN  domainRecords_subdomain(t3, Tail(configs))

\* l. 66-78: DNS RECORD SECTION
Records_subdomain ==
  /\ pc = "records"
  /\ props.variant = "subdomain"
  /\ Advance(domainRecords_subdomain(tree, allDomainConfigs), "website")
  /\ UNCHANGED <<props, idx>>

\* l. 80-104: HOME EMAIL SECTION and WEBSITE SECTION up to the site hosting
Website_subdomain ==
  /\ pc = "website"
  /\ props.variant = "subdomain"
  /\ LET fromId == "Identity-" \o homeDomain_subdomain
         t1 == Construct(tree, fromId, "others", [id |-> fromId])
         t2 == Construct(t1, "Identity-chris@chriswlucas.com", "others",
                         [id |-> "Identity-chris@chriswlucas.com"])
         t3 == Construct(t2, accessLogBucket(props.id).id, "buckets",
                         accessLogBucket(props.id))
     IN  Advance(createWebHostingInfra_subdomain(t3, websiteDomain_subdomain,
                   props.primaryDomainConfig.domain, "access-logs-bucket"), "redirects")
  /\ idx' = 1
  /\ UNCHANGED props

\* l. 107-113: the callback of domainConfigMap.forEach on entry idx
Redirect_subdomain ==
  /\ pc = "redirects"
  /\ props.variant = "subdomain"
  /\ idx <= Len(allDomainConfigs)
  /\ LET apexDomain == allDomainConfigs[idx].domain
         \* primary domain doesn't need website subdomain redirection
         redirectingSubdomains ==
           IF apexDomain # props.primaryDomainConfig.domain
           THEN <<props.websiteSubdomain>> ELSE <<>>
     IN  Advance(createDomainRedirectInfra_subdomain(tree, apexDomain,
                   redirectingSubdomains, websiteDomain_subdomain, apexDomain,
                   "access-logs-bucket"), "redirects")
  /\ idx' = idx + 1
  /\ UNCHANGED props

\* l. 113-114: the map is exhausted and the constructor returns
Finish_subdomain ==
  /\ pc = "redirects"
  /\ props.variant = "subdomain"
  /\ idx > Len(allDomainConfigs)
  /\ pc' = "done"
  /\ UNCHANGED <<props, idx, tree, plan, planProps, ret>>

----------------------------------------------------------------------------
(* The single shared distribution variant (l. 1060-1166) *)

\* const primaryDomain = ...; const secondaryDomains = [...]: the two literals
\* of the constructor, read as its configuration
SharedProps(ds) ==
  [ variant          |-> "shared",
    id               |-> "PersonalWebsiteStack",
    primaryDomain    |-> ds[1],
    secondaryDomains |-> Tail(ds) ]

\* the names the two literals may hold: any apex domains, among them one whose
\* name ends with the name of another
SharedDomains == Domains \cup {"myexample.com"}

Init_shared ==
  \E ds \in UNION { [1..k -> SharedDomains] : k \in 1..MaxDomains } :
    /\ ds[1] \in PrimaryDomains
    /\ props = SharedProps(ds)

\* const apexDomains = [primaryDomain, ...secondaryDomains]
apexDomains == <<props.primaryDomain>> \o props.secondaryDomains

RECURSIVE concatAll(_)
\* .reduce((x,y) => x.concat(y), [])
concatAll(seqs) == IF Len(seqs) = 0 THEN <<>> ELSE Head(seqs) \o concatAll(Tail(seqs))

\* const websiteDomains = apexDomains.map(domain => [domain, `www.${domain}`]).reduce(...)
websiteDomains ==
  LET pair(domain) == <<domain, "www." \o Str(domain)>>
  IN  concatAll(MapSeq(pair, apexDomains))

\* String.prototype.includes
includes(s, part) ==
  \E i \in 1..(Len(s) - Len(part) + 1) : SubSeq(s, i, i + Len(part) - 1) = part

\* a bug: the certificate names only the primary domain
certificate_shared_primaryOnly ==
  [ id |-> Str(props.primaryDomain) \o "-certificate",
    domainName |-> props.primaryDomain,
    subjectAlternativeNames |-> <<>>,
    validation |-> Undefined ]

\* const certificate = new acm.Certificate(this, `${primaryDomain}-certificate`, ...)
certificate_shared ==
  LET other(domain) == domain # props.primaryDomain
  IN  [ id |-> Str(props.primaryDomain) \o "-certificate",
        domainName |-> props.primaryDomain,
        subjectAlternativeNames |-> SelectSeq(websiteDomains, other),
        validation |-> Undefined ]

\* const siteBucket = new s3.Bucket(this, `${primaryDomain}-origin-bucket`, ...)
siteBucket_shared ==
  [ id |-> Str(props.primaryDomain) \o "-origin-bucket",
    bucketName |-> Str(props.primaryDomain) \o "-origin",
    blockPublicAccess |-> TRUE,
    websiteRedirect |-> Undefined,
    expirationDays |-> 0 ]

\* const distribution = new cloudfront.CloudFrontWebDistribution(this,
\*   `${primaryDomain}-distribution`, { viewerCertificate, ... }) with
\* viewerCertificate = ViewerCertificate.fromAcmCertificate(certificate, { aliases: websiteDomains })
distribution_shared ==
  [ id |-> Str(props.primaryDomain) \o "-distribution",
    domainNames |-> websiteDomains,
    certificate |-> certificate_shared.id,
    origin |-> siteBucket_shared.id,
    logBucket |-> Undefined ]

\* l. 1137-1145: the alias record of a website domain
aliasRecord_shared(domain) ==
  LET matches(apexDomain) == includes(domain, apexDomain)
      apexDomain == SelectSeq(apexDomains, matches)[1]
  IN  [ id |-> Str(domain) \o "-cf-aliases", type |-> "A", zone |-> apexDomain,
        recordName |-> domain, target |-> distribution_shared.id ]

\* l. 1079-1091: Hosted Zones
Zones_shared ==
  /\ pc = "start"
  /\ props.variant = "shared"
  /\ Advance(ConstructAll(tree, "zones", MapSeq(hostedZone, apexDomains)), "website")
  /\ UNCHANGED <<props, idx>>

\* l. 1093-1134: Website
Website_shared ==
  /\ pc = "website"
  /\ props.variant = "shared"
  /\ LET t1 == Construct(tree, siteBucket_shared.id, "buckets", siteBucket_shared)
         t2 == Construct(t1, "OAI", "others", [id |-> "OAI"])
         t3 == Construct(t2, certificate_shared.id, "certs", certificate_shared)
     IN  Advance(Construct(t3, distribution_shared.id, "dists", distribution_shared),
                 "aliases")
  /\ UNCHANGED <<props, idx>>

\* l. 1136-1145: www subdomain redirection
Aliases_shared ==
  /\ pc = "aliases"
  /\ props.variant = "shared"
  /\ Advance(ConstructAll(tree, "aliases", MapSeq(aliasRecord_shared, websiteDomains)),
             "email")
  /\ UNCHANGED <<props, idx>>

\* l. 1147-1165: Email, after which the constructor returns
Email_shared ==
  /\ pc = "email"
  /\ props.variant = "shared"
  /\ LET mx(domain) ==
           [ id |-> Str(domain) \o "-mx-gmail", kind |-> "mx", zone |-> domain,
             recordName |-> Undefined, data |-> "ASPMX.L.GOOGLE.COM.", ttl |-> Undefined ]
         txt(domain) ==
           [ id |-> Str(domain) \o "-txt-spf", kind |-> "txt", zone |-> domain,
             recordName |-> Undefined, data |-> "v=spf1 include:_spf.google.com ~all",
             ttl |-> Undefined ]
         both(domain) == <<mx(domain), txt(domain)>>
     IN  Advance(ConstructAll(tree, "records", concatAll(MapSeq(both, apexDomains))), "done")
  /\ UNCHANGED <<props, idx>>

----------------------------------------------------------------------------

----------------------------------------------------------------------------
(* The single-domain variant: resources (l. 679-1053) *)

\* values Date.now() may return
MaxClock == 2
Clock == 1..MaxClock

RECURSIVE removePeriods(_)
\* zone.zoneName.replace(new RegExp(/\./g), '')
removePeriods(s) ==
  IF Len(s) = 0 THEN ""
  ELSE (IF SubSeq(s, 1, 1) = "." THEN "" ELSE SubSeq(s, 1, 1))
       \o removePeriods(SubSeq(s, 2, Len(s)))

\* a bug: the alarm is created with no action, whatever this.alarmActions holds
createAlarm_noAction(t, id, alarmName) ==
  Construct(t, id, "alarms", [id |-> id, alarmName |-> alarmName, actions |-> {}])

\* new cloudwatch.Alarm(this, id, {...}).addAlarmAction(...this.alarmActions):
\* the alarm is created, then spreading an unassigned alarmActions throws
createAlarm(t, id, alarmName) ==
  LET actions == IF t.alarmActions = <<>> THEN {} ELSE t.alarmActions[1]
      t1 == Construct(t, id, "alarms",
                      [id |-> id, alarmName |-> alarmName, actions |-> actions])
  IN  IF t1.failed \/ t.alarmActions # <<>> THEN t1
      ELSE [t1 EXCEPT !.failed = TRUE, !.error = "TypeError"]

RECURSIVE createSesAlarmsFrom(_, _)
\* l. 1050-1052: .forEach((props) => new cloudwatch.Alarm(...).addAlarmAction(...))
createSesAlarmsFrom(t, names) ==
  IF Len(names) = 0 THEN t
  ELSE createSesAlarmsFrom(createAlarm(t, Head(names) \o " Alarm", Head(names)),
                           Tail(names))

\* createSesAlarms()
createSesAlarms(t) == createSesAlarmsFrom(t, alarmNames)

\* createCertAlarm(cert, domain)
createCertAlarm(t, domain) ==
  createAlarm(t, Str(domain) \o "-cert Expiry Alarm", Str(domain) \o "-cert Expiry Alarm")

\* ses.EmailSendingEvent, by the values of the enum
REJECT            == "reject"
BOUNCE            == "bounce"
RENDERING_FAILURE == "renderingFailure"
COMPLAINT         == "complaint"
DELIVERY_DELAY    == "deliveryDelay"

\* an optional boolean: <<>> when omitted, <<b>> when given
Omitted == <<>>

\* a bug: the alarm is created only when props.alarm is given as true
sesAlarmWanted_explicit(alarm) == alarm = <<TRUE>>

\* const alarm = props.alarm ?? true
sesAlarmWanted(alarm) == IF alarm = Omitted THEN TRUE ELSE alarm[1]

\* createSesSqsDestination(props): the tree after the call and the value returned
createSesSqsDestination(t, p) ==
  LET alarm == sesAlarmWanted(p.alarm)
      base  == Str(p.name) \o "-mail-" \o Str(p.event)
      topic == [ id |-> base \o "-destination-topic",
                 displayName |-> Str(p.name) \o "-complaint-destination-topic",
                 subscriptions |-> {base \o "-destination-queue"} ]
      dest  == [ id |-> base \o "-destination",
                 configurationSet |-> p.configurationSet,
                 topic |-> topic.id, events |-> {p.event} ]
      queue == [ id |-> base \o "-destination-queue",
                 queueName |-> base \o "-destination-queue" ]
      t1 == Construct(t, topic.id, "topics", topic)
      t2 == Construct(t1, dest.id, "destinations", dest)
      t3 == Construct(t2, queue.id, "queues", queue)
      t4 == IF alarm
            THEN createAlarm(t3, base \o "-alarm",
                             queue.queueName \o " at least one message visible")
            ELSE t3
  IN  [ tree |-> t4, topic |-> topic.id ]

\* a bug: the delivery delay destination is created with the default alarm
sesDestinationCalls_allAlarms(name, configurationSet) ==
  LET call(event) == [name |-> name, configurationSet |-> configurationSet,
                      event |-> event, alarm |-> Omitted]
  IN  MapSeq(call, <<REJECT, BOUNCE, RENDERING_FAILURE, COMPLAINT, DELIVERY_DELAY>>)

\* the five calls of createSesSqsDestination in createFromEmailInfra, in order
sesDestinationCalls(name, configurationSet) ==
  << [name |-> name, configurationSet |-> configurationSet, event |-> REJECT,
      alarm |-> Omitted],
     [name |-> name, configurationSet |-> configurationSet, event |-> BOUNCE,
      alarm |-> Omitted],
     [name |-> name, configurationSet |-> configurationSet, event |-> RENDERING_FAILURE,
      alarm |-> Omitted],
     [name |-> name, configurationSet |-> configurationSet, event |-> COMPLAINT,
      alarm |-> Omitted],
     [name |-> name, configurationSet |-> configurationSet, event |-> DELIVERY_DELAY,
      alarm |-> <<FALSE>>] >>

RECURSIVE createSesSqsDestinations(_, _)
\* l. 751-776: the calls one after the other, the returned topics unused
createSesSqsDestinations(t, calls) ==
  IF Len(calls) = 0 THEN t
  ELSE createSesSqsDestinations(createSesSqsDestination(t, Head(calls)).tree, Tail(calls))

\* a bug: the attachment keeps one fixed physical resource id
mailArchiveAttachment_fixedId(zoneName, now) ==
  [ id |-> Str(zoneName) \o "-mail-archive-attachment",
    configurationSet |-> removePeriods(zoneName) \o "-default-configuration-set",
    archive |-> Str(zoneName) \o "-mail-archive-2",
    physicalResourceId |-> "0" ]

\* new cr.AwsCustomResource(this, `${zone.zoneName}-mail-archive-attachment`, { onUpdate: {
\*   ..., physicalResourceId: cr.PhysicalResourceId.of(Date.now().toString()) } })
mailArchiveAttachment(zoneName, now) ==
  [ id |-> Str(zoneName) \o "-mail-archive-attachment",
    configurationSet |-> removePeriods(zoneName) \o "-default-configuration-set",
    archive |-> Str(zoneName) \o "-mail-archive-2",
    physicalResourceId |-> ToString(now) ]

\* createFromEmailInfra(zone, dmarcRua) of the single-domain variant, with the
\* value Date.now() returned
createFromEmailInfra_single(t, zoneName, dmarcRua, now) ==
  LET zoneNameWithoutPeriods == removePeriods(zoneName)
      configurationSet == Str(zoneName) \o "-default-configuration-set"
      t1 == Construct(t, configurationSet, "others", [id |-> configurationSet])
      t2 == Construct(t1, "Email-" \o Str(zoneName), "others",
                      [id |-> "Email-" \o Str(zoneName)])
      t3 == Construct(t2, "Email-" \o Str(zoneName) \o "-DmarcTxtRecord", "records",
              [ id |-> "Email-" \o Str(zoneName) \o "-DmarcTxtRecord", kind |-> "txt",
                zone |-> zoneName, recordName |-> "_dmarc",
                data |-> "v=DMARC1;p=reject;rua=" \o dmarcRua, ttl |-> Undefined ])
      t4 == createSesSqsDestinations(t3,
              sesDestinationCalls(zoneNameWithoutPeriods, configurationSet))
      t5 == Construct(t4, Str(zoneName) \o "-mail-archive-key", "others",
                      [id |-> Str(zoneName) \o "-mail-archive-key"])
      t6 == Construct(t5, Str(zoneName) \o "-mail-archive-2", "others",
                      [id |-> Str(zoneName) \o "-mail-archive-2"])
  IN  Construct(t6, mailArchiveAttachment(zoneName, now).id, "custom",
                mailArchiveAttachment(zoneName, now))

\* zone.hostedZoneArn
hostedZoneArn(zoneName) == "arn:aws:route53:::hostedzone/" \o Str(zoneName)

\* l. 709-715: the statement that lets the user list the hosted zones
listZonesStatement ==
  [ actions   |-> {"route53:ListHostedZonesByName", "route53:ListHostedZones"},
    resources |-> {"*"} ]

\* a bug: the policy is granted on every hosted zone of the stack
dnsPolicy_allZones(userName, zones) ==
  [ id |-> userName \o "-dns-management-policy",
    user |-> "iam-user-" \o userName,
    statements |->
      << [ actions   |-> {"route53:ListResourceRecordSets",
                          "route53:ChangeResourceRecordSets", "route53:GetChange"},
           resources |-> {hostedZoneArn(z.zoneName) : z \in tree.zones}
                         \cup {"arn:aws:route53:::change/*"} ],
         listZonesStatement >> ]

\* l. 696-719: the policy of two statements, attached to the user
dnsPolicy(userName, zones) ==
  [ id |-> userName \o "-dns-management-policy",
    user |-> "iam-user-" \o userName,
    statements |->
      << [ actions   |-> {"route53:ListResourceRecordSets",
                          "route53:ChangeResourceRecordSets", "route53:GetChange"},
           resources |-> {hostedZoneArn(zones[i]) : i \in 1..Len(zones)}
                         \cup {"arn:aws:route53:::change/*"} ],
         listZonesStatement >> ]

\* dnsManagementIamUser(userName, zones)
dnsManagementIamUser(t, userName, zones) ==
  LET user == "iam-user-" \o userName
      t1 == Construct(t, user, "others", [id |-> user])
      t2 == Construct(t1, user \o "-access-key", "others", [id |-> user \o "-access-key"])
      t3 == Construct(t2, user \o "-access-key-secret", "others",
                      [id |-> user \o "-access-key-secret"])
  IN  Construct(t3, dnsPolicy(userName, zones).id, "policies",
                dnsPolicy(userName, zones))

\* createWebHostingInfra(zone, websiteDomain, accessLogBucket), l. 819-879
createWebHostingInfra_single(t, zone, wsDomain, logBucket) ==
  LET t1 == Construct(t, siteBucket(wsDomain).id, "buckets", siteBucket(wsDomain))
      t2 == Construct(t1, certificate(zone, wsDomain).id, "certs", certificate(zone, wsDomain))
      t3 == createCertAlarm(t2, wsDomain)
      t4 == Construct(t3, "url-rewrite-fn", "others", [id |-> "url-rewrite-fn"])
      t5 == Construct(t4, distribution(wsDomain, logBucket).id, "dists",
                      distribution(wsDomain, logBucket))
  IN  Construct(t5, aliasRecord(zone, wsDomain, "").id, "aliases",
                aliasRecord(zone, wsDomain, distribution(wsDomain, logBucket).id))

\* createDomainRedirectInfra(zone, domain, targetDomain, accessLogBucket,
\*                           redirectingSubdomains = []), l. 890-942
createDomainRedirectInfra_single(t, zone, domain, targetDomain, logBucket, redirectingSubdomains) ==
  LET alternates == alternateNames(redirectingSubdomains, domain)
      dist == redirectDistribution(domain, alternates, logBucket)
      t1 == Construct(t, redirectBucket(domain, targetDomain).id, "buckets",
                      redirectBucket(domain, targetDomain))
      t2 == Construct(t1, redirectCertificate(zone, domain, alternates).id, "certs",
                      redirectCertificate(zone, domain, alternates))
      t3 == createCertAlarm(t2, domain)
      t4 == Construct(t3, dist.id, "dists", dist)
      t5 == Construct(t4, aliasRecord(zone, domain, dist.id).id, "aliases",
                      aliasRecord(zone, domain, dist.id))
      route(alternateName) == aliasRecord(zone, alternateName, dist.id)
  IN  ConstructAll(t5, "aliases", MapSeq(route, alternates))

----------------------------------------------------------------------------
(* The single-domain variant: constructor (l. 601-677) *)

\* PersonalWebsiteStackProps of the single-domain variant
SingleProps(domain, placed) ==
  [ variant         |-> "single",
    id              |-> "PersonalWebsiteStack",
    homeSubdomain   |-> "home",
    alarmEmail      |-> "alarm@example.com",
    postmasterEmail |-> "postmaster@example.com",
    domain          |-> domain,
    records         |-> DomainRecords(<<domain>>, placed, 1) ]

\* new PersonalWebsiteStack(app, 'PersonalWebsiteStack', { ... }) of the
\* single-domain variant
Init_single ==
  \E domain \in Domains, placed \in Placements[1] :
    props = SingleProps(domain, placed)

\* const websiteDomain = this.domainJoin(['www', props.domain])
websiteDomain_single == domainJoin(<<"www", props.domain>>)

\* const homeDomain = this.domainJoin([props.homeSubdomain, props.domain])
homeDomain_single == domainJoin(<<props.homeSubdomain, props.domain>>)

\* a bug: the SES account alarms are created before alarmActions is assigned
alarmsSection_alarmsFirst(t) ==
  [createSesAlarms(t) EXCEPT !.alarmActions = <<{"AlarmTopic"}>>]

\* l. 642-645: this.alarmActions = [new cw_actions.SnsAction(alarmTopic)], then
\* this.createSesAlarms()
alarmsSection(t) == createSesAlarms([t EXCEPT !.alarmActions = <<{"AlarmTopic"}>>])

\* l. 627-645: the log bucket, the alarm topic, alarmActions, the SES account alarms
Begin_single ==
  /\ pc = "start"
  /\ props.variant = "single"
  /\ LET t1 == Construct(tree, accessLogBucket(props.id).id, "buckets",
                         accessLogBucket(props.id))
         t2 == Construct(t1, "AlarmTopic", "others", [id |-> "AlarmTopic"])
     IN  Advance(alarmsSection(t2), "zone")
  /\ UNCHANGED <<props, idx>>

\* l. 647-659: the domain's hosted zone and the requested DNS records
Zone_single ==
  /\ pc = "zone"
  /\ props.variant = "single"
  /\ LET mx(recordProps)    == configuredRecord("mx", props.domain, recordProps)
         cname(recordProps) == configuredRecord("cname", props.domain, recordProps)
         txt(recordProps)   == configuredRecord("txt", props.domain, recordProps)
         t1 == Construct(tree, hostedZone(props.domain).id, "zones",
                         hostedZone(props.domain))
         t2 == ConstructAll(t1, "records", MapSeq(mx, props.records.MxRecords))
         t3 == ConstructAll(t2, "records", MapSeq(cname, props.records.CnameRecords))
     IN  Advance(ConstructAll(t3, "records", MapSeq(txt, props.records.TxtRecords)),
                 "website")
  /\ UNCHANGED <<props, idx>>

\* l. 661-666: website hosting, and the redirect of the domain to www
Website_single ==
  /\ pc = "website"
  /\ props.variant = "single"
  /\ LET t1 == createWebHostingInfra_single(tree, props.domain, websiteDomain_single,
                                            "access-logs-bucket")
     IN  Advance(createDomainRedirectInfra_single(t1, props.domain, props.domain,
                   websiteDomain_single, "access-logs-bucket", <<>>), "home")
  /\ UNCHANGED <<props, idx>>

\* zone.addDelegation(homeZone): an NS record of the delegate's name in `zone`,
\* a construct in the scope of the zone
zoneDelegation(zone, delegate) ==
  [ id |-> Str(zone) \o "/" \o Str(zone) \o " -> " \o Str(delegate),
    kind |-> "ns", zone |-> zone, recordName |-> delegate,
    data |-> "name servers of " \o Str(delegate), ttl |-> Undefined ]

\* l. 668-671: the home subdomain's zone, delegated from the domain's zone
HomeZone_single ==
  /\ pc = "home"
  /\ props.variant = "single"
  /\ LET t1 == Construct(tree, hostedZone(homeDomain_single).id, "zones",
                         hostedZone(homeDomain_single))
     IN  Advance(Construct(t1, zoneDelegation(props.domain, homeDomain_single).id,
                           "records", zoneDelegation(props.domain, homeDomain_single)),
                 "email")
  /\ UNCHANGED <<props, idx>>

\* l. 673-674: the home subdomain's email; Date.now() is read once
Email_single ==
  /\ pc = "email"
  /\ props.variant = "single"
  /\ \E now \in Clock :
       Advance(createFromEmailInfra_single(tree, homeDomain_single,
                 "mailto:" \o Str(props.postmasterEmail), now), "user")
  /\ UNCHANGED <<props, idx>>

\* l. 675-677: the DNS management user, after which the constructor returns
IamUser_single ==
  /\ pc = "user"
  /\ props.variant = "single"
  /\ Advance(dnsManagementIamUser(tree, homeDomain_single \o "-dns-management",
                                  <<homeDomain_single>>), "done")
  /\ UNCHANGED <<props, idx>>

----------------------------------------------------------------------------
(* AddressRecords (part_001) and createSesSqsDestination, called on their own *)

IpVersions == {"ipv4-only", "ipv6-only", "dual-stack"}

\* AddressRecordsProps
AddressRecordsProps(zone, domainName, target, ipVersion) ==
  [ variant    |-> "addressRecords",
    id         |-> "Records",
    zone       |-> zone,
    domainName |-> domainName,
    target     |-> target,
    ipVersion  |-> ipVersion ]

\* new AddressRecords(scope, id, props), on the props the type accepts
Init_addressRecords ==
  \E zone \in Domains, sub \in {Undefined, "www"}, target \in {"dist-1", "dist-2"},
     ipVersion \in IpVersions \cup {Undefined} :
    props = AddressRecordsProps(zone, domainJoin(<<sub, zone>>), target, ipVersion)

\* a bug: an omitted ipVersion creates the A record only
ipVersionOf_ipv4(p) == IF p.ipVersion = Undefined THEN "ipv4-only" ELSE p.ipVersion

\* const ipVersion = props.ipVersion ?? 'dual-stack'
ipVersionOf(p) == IF p.ipVersion = Undefined THEN "dual-stack" ELSE p.ipVersion

\* the constructor of AddressRecords: its records are constructs `a` and `aaaa`
\* in the scope of the AddressRecords construct itself
AddressRecords(t, id, p) ==
  LET ipVersion == ipVersionOf(p)
      record(name, type) ==
        [ id |-> id \o "/" \o name, type |-> type, zone |-> p.zone,
          recordName |-> p.domainName, target |-> p.target ]
      t1 == Construct(t, id, "others", [id |-> id])
      t2 == IF ipVersion = "dual-stack" \/ ipVersion = "ipv4-only"
            THEN Construct(t1, record("a", "A").id, "aliases", record("a", "A"))
            ELSE t1
  IN  IF ipVersion = "dual-stack" \/ ipVersion = "ipv6-only"
      THEN Construct(t2, record("aaaa", "AAAA").id, "aliases", record("aaaa", "AAAA"))
      ELSE t2

\* new AddressRecords(scope, 'Records', props)
New_AddressRecords ==
  /\ pc = "start"
  /\ props.variant = "addressRecords"
  /\ Advance(AddressRecords(tree, props.id, props), "done")
  /\ UNCHANGED <<props, idx>>

\* CreateSesSqsDestinationProps
SesSqsDestinationProps(name, event, alarm) ==
  [ variant          |-> "sesSqsDestination",
    id               |-> "PersonalWebsiteStack",
    name             |-> name,
    configurationSet |-> name \o "-default-configuration-set",
    event            |-> event,
    alarm            |-> alarm ]

\* a call of createSesSqsDestination on the props the type accepts
Init_sesSqsDestination ==
  \E name \in {"homeexamplecom", "homeexamplenet"},
     event \in {REJECT, BOUNCE, RENDERING_FAILURE, COMPLAINT, DELIVERY_DELAY},
     alarm \in {Omitted, <<TRUE>>, <<FALSE>>} :
    props = SesSqsDestinationProps(name, event, alarm)

\* this.createSesSqsDestination(props), on a stack whose constructor has
\* assigned alarmActions (l. 642); `ret` takes the value returned
Call_createSesSqsDestination ==
  /\ pc = "start"
  /\ props.variant = "sesSqsDestination"
  /\ LET stack == [tree EXCEPT !.alarmActions = <<{"AlarmTopic"}>>]
         call  == createSesSqsDestination(stack, props)
     IN  /\ tree' = call.tree
         /\ ret'  = call.topic
         /\ pc'   = IF call.tree.failed THEN "failed" ELSE "done"
  /\ UNCHANGED <<props, idx, plan, planProps>>

\* no cloud assembly has been written
NoPlan == [EmptyTree EXCEPT !.ids = {"<no plan>"}]

\* the props of the construction whose tree was written, before any was
NoProps == [variant |-> "none"]

\* the app's script ran to its end: the app synthesizes the tree it holds.  A
\* constructor that threw ended the process before, and nothing is written.
Synth ==
  /\ pc = "done"
  /\ props.variant \in {"keyed", "subdomain", "shared", "single"}
  /\ pc' = "synthesized"
  /\ plan' = tree
  /\ planProps' = props
  /\ UNCHANGED <<props, idx, tree, ret>>

\* the app is run again on the same props
Rerun ==
  /\ pc = "synthesized"
  /\ pc' = "start"
  /\ idx' = 0
  /\ tree' = EmptyTree
  /\ UNCHANGED <<props, plan, planProps, ret>>

\* the configuration of the per-subdomain variant as the keyed variant takes it
\* (part_002 against bin/personal_website.ts l. 59-112): the same domains in
\* the same order, the same websiteSubdomain, every record of the map of
\* subdomains as an entry of the record list, the key '' as an omitted recordName
keyedConfig(p) ==
  LET record(entry) ==
        [ recordName |-> IF entry.subdomain = "" THEN Undefined ELSE entry.subdomain,
          data |-> entry.data, ttl |-> entry.ttl ]
      records(config) ==
        [ domain       |-> config.domain,
          MxRecords    |-> MapSeq(record, config.subdomainMxRecords),
          CnameRecords |-> MapSeq(record, config.subdomainCnameRecords),
          TxtRecords   |-> MapSeq(record, config.subdomainTxtRecords) ]
  IN  [ variant          |-> "keyed",
        id               |-> p.id,
        websiteSubdomain |-> p.websiteSubdomain,
        homeSubdomain    |-> p.homeSubdomain,
        alarmEmail       |-> "alarm@example.com",
        primaryDomain    |-> p.primaryDomainConfig.domain,
        domainConfigs    |-> MapSeq(records, <<p.primaryDomainConfig>>
                                             \o p.secondaryDomainConfigs) ]

\* the app of the per-subdomain variant has written its tree; the stack is
\* replaced by the keyed variant and the app is run on the same configuration
Migrate ==
  /\ pc = "synthesized"
  /\ props.variant = "subdomain"
  /\ props' = keyedConfig(props)
  /\ pc' = "start"
  /\ idx' = 0
  /\ tree' = EmptyTree
  /\ UNCHANGED <<plan, planProps, ret>>

Init ==
  /\ \/ Init_keyed \/ Init_subdomain \/ Init_shared \/ Init_single
     \/ Init_addressRecords \/ Init_sesSqsDestination
  /\ pc = "start"
  /\ idx = 0
  /\ tree = EmptyTree
  /\ plan = NoPlan
  /\ planProps = NoProps
  /\ ret = Undefined

Next ==
  \/ Begin
  \/ ProcessDomain
  \/ Finish
  \/ Zones_subdomain
  \/ Records_subdomain
  \/ Website_subdomain
  \/ Redirect_subdomain
  \/ Finish_subdomain
  \/ Zones_shared
  \/ Website_shared
  \/ Aliases_shared
  \/ Email_shared
  \/ Begin_single
  \/ Zone_single
  \/ Website_single
  \/ HomeZone_single
  \/ Email_single
  \/ IamUser_single
  \/ New_AddressRecords
  \/ Call_createSesSqsDestination
  \/ Synth
  \/ Rerun
  \/ Migrate

Spec == Init /\ [][Next]_vars

----------------------------------------------------------------------------
(* Reading a configuration and a plan *)

\* the apex domains a configuration lists, in order
ConfigDomains ==
  CASE props.variant = "keyed" ->
         [i \in 1..Len(props.domainConfigs) |-> props.domainConfigs[i].domain]
    [] props.variant = "subdomain" ->
         [i \in 1..Len(allDomainConfigs) |-> allDomainConfigs[i].domain]
    [] props.variant = "shared" -> apexDomains
    [] props.variant = "single" -> <<props.domain>>
    [] OTHER -> <<>>

PrimaryDomain ==
  CASE props.variant = "subdomain" -> props.primaryDomainConfig.domain
    [] props.variant \in {"keyed", "shared"} -> props.primaryDomain
    [] props.variant = "single" -> props.domain
    [] OTHER -> Undefined

SecondaryDomains == Range(ConfigDomains) \ {PrimaryDomain}

\* the variants that put the website on props.websiteSubdomain and redirect to it
Redirecting == props.variant \in {"keyed", "subdomain"}

\* the input constraints of `resolve`: one primary domain among the apex
\* domains, no apex domain listed twice, a non-empty website subdomain
ValidConfig ==
  /\ PrimaryDomain \in Range(ConfigDomains)
  /\ \A i, j \in 1..Len(ConfigDomains) : ConfigDomains[i] = ConfigDomains[j] => i = j
  /\ Redirecting => props.websiteSubdomain # ""

\* subdomain + "." + apex
Fqdn(subdomain, apex) == subdomain \o "." \o apex

Bucket(id) == CHOOSE b \in tree.buckets : b.id = id
Cert(id)   == CHOOSE c \in tree.certs : c.id = id

\* the names a distribution answers for, and the names a certificate covers
NameSet(d)   == Range(d.domainNames)
CertNames(c) == {c.domainName} \cup Range(c.subjectAlternativeNames)

IsRedirect(d)  == Bucket(d.origin).websiteRedirect # Undefined
ContentDists   == {d \in tree.dists : ~IsRedirect(d)}
RedirectDists  == {d \in tree.dists : IsRedirect(d)}

Done == pc = "done"

----------------------------------------------------------------------------
(* C1 *)

\* C1: under a valid configuration no name is claimed by two distributions,
\* a distribution's names are exactly the names of its certificate, and in the
\* finished plan every aliased name is in the name set of exactly one
\* distribution.
C1_OneDistributionPerName ==
  (Redirecting /\ ValidConfig) =>
    /\ \A d1, d2 \in tree.dists : d1 # d2 => NameSet(d1) \cap NameSet(d2) = {}
    /\ \A d \in tree.dists : NameSet(d) = CertNames(Cert(d.certificate))
    /\ Done => \A a \in tree.aliases :
                 Cardinality({d \in tree.dists : a.recordName \in NameSet(d)}) = 1

\* a finished plan of the keyed variant with a secondary domain
C1_Witness ==
  /\ Done /\ ValidConfig /\ props.variant = "keyed"
  /\ SecondaryDomains # {}
  /\ Cardinality(tree.dists) >= 3

----------------------------------------------------------------------------
(* C2 *)

\* C2: under a valid configuration every redirect bucket, the primary apex's
\* included, redirects to websiteSubdomain.primaryDomain, which is no apex
\* domain of the configuration.
C2_RedirectTarget ==
  (Redirecting /\ ValidConfig) =>
    \A b \in tree.buckets :
      b.websiteRedirect # Undefined =>
        /\ b.websiteRedirect = Fqdn(props.websiteSubdomain, PrimaryDomain)
        /\ b.websiteRedirect \notin Range(ConfigDomains)
        /\ b.websiteRedirect # b.bucketName

\* a finished plan with the redirect buckets of the primary and of a secondary
C2_Witness ==
  /\ Done /\ ValidConfig /\ Redirecting
  /\ \E b \in tree.buckets : b.websiteRedirect # Undefined /\ b.bucketName = PrimaryDomain
  /\ \E b \in tree.buckets : b.websiteRedirect # Undefined /\ b.bucketName \in SecondaryDomains

----------------------------------------------------------------------------
(* C3 *)

\* C3: every name of every distribution, in each variant, is the domainName
\* or a subjectAlternativeName of the certificate bound to the distribution.
C3_NamesCovered ==
  \A d \in tree.dists : NameSet(d) \subseteq CertNames(Cert(d.certificate))

\* a plan with a distribution of several names
C3_Witness ==
  /\ Done
  /\ \E d \in tree.dists : Cardinality(NameSet(d)) >= 2
  /\ \E d \in tree.dists : Cardinality(NameSet(d)) = 1

----------------------------------------------------------------------------
(* C4 *)

\* C4: under a valid configuration no name has two alias records: two alias
\* records of the same name are one record, so no name is aliased to two
\* distributions.
C4_OneAliasPerName ==
  ValidConfig =>
    \A a1, a2 \in tree.aliases : a1.recordName = a2.recordName => a1 = a2

\* a finished plan with the website's alias and a secondary's two aliases
C4_Witness ==
  /\ Done /\ ValidConfig /\ Redirecting
  /\ Cardinality(tree.aliases) >= 4

----------------------------------------------------------------------------
(* C5 *)

\* C5: when construction completes, each apex domain the configuration lists
\* has exactly one hosted zone, whose zoneName is the domain, there is no
\* other zone beside the home subdomain's delegated zone of the single-domain
\* variant, and under a valid configuration the primary domain has one.
C5_OneZonePerApex ==
  Done =>
    /\ \A i \in 1..Len(ConfigDomains) :
         Cardinality({z \in tree.zones : z.zoneName = ConfigDomains[i]}) = 1
    /\ \A z \in tree.zones :
         \/ z.zoneName \in Range(ConfigDomains)
         \/ props.variant = "single" /\ z.zoneName = Fqdn(props.homeSubdomain, props.domain)
    /\ ValidConfig => \E z \in tree.zones : z.zoneName = PrimaryDomain

\* finished plans with the zones of a primary and a secondary domain
C5_Witness ==
  /\ Done /\ ValidConfig
  /\ Cardinality(tree.zones) >= 2

----------------------------------------------------------------------------
(* C6 *)

\* C6: the finished plan of a valid configuration with n secondary domains has
\* one content distribution and n+1 redirect distributions, one for each apex
\* domain, the primary included.
C6_DistributionCount ==
  (Done /\ Redirecting /\ ValidConfig) =>
    /\ Cardinality(ContentDists) = 1
    /\ Cardinality(RedirectDists) = Cardinality(SecondaryDomains) + 1
    /\ \A apex \in Range(ConfigDomains) :
         Cardinality({d \in RedirectDists : d.domainNames[1] = apex}) = 1

\* the boundary: no secondary domain, one content and one redirect distribution
C6_Witness ==
  /\ Done /\ Redirecting /\ ValidConfig
  /\ SecondaryDomains = {}
  /\ Cardinality(tree.dists) = 2

----------------------------------------------------------------------------
(* C7 *)

\* C7: the finished plan of a valid configuration has an alias record in the
\* primary zone, named websiteDomain, to the content distribution; each
\* secondary apex has a redirect distribution named exactly apex and
\* websiteSubdomain.apex, both aliased to it in the apex's own zone.
C7_Aliases ==
  (Done /\ Redirecting /\ ValidConfig) =>
    /\ \E a \in tree.aliases, d \in ContentDists :
         /\ a.zone = PrimaryDomain
         /\ a.recordName = Fqdn(props.websiteSubdomain, PrimaryDomain)
         /\ a.target = d.id
    /\ \A apex \in SecondaryDomains :
         \E d \in RedirectDists :
           /\ NameSet(d) = {apex, Fqdn(props.websiteSubdomain, apex)}
           /\ \A name \in NameSet(d) :
                \E a \in tree.aliases :
                  a.recordName = name /\ a.zone = apex /\ a.target = d.id

\* a finished plan with a secondary apex and its two aliases
C7_Witness ==
  /\ Done /\ Redirecting /\ ValidConfig
  /\ \E apex \in SecondaryDomains :
       Cardinality({a \in tree.aliases : a.zone = apex}) = 2

----------------------------------------------------------------------------
(* C8 *)

\* the apex a redirect distribution was made for: its first name
ApexOf(d) == d.domainNames[1]

\* C8 as stated: the content certificate covers exactly websiteDomain and the
\* certificate of every redirect distribution, the primary apex's included,
\* covers exactly the apex and websiteSubdomain.apex.
C8_Original ==
  (Redirecting /\ ValidConfig) =>
    /\ \A d \in ContentDists :
         CertNames(Cert(d.certificate)) = {Fqdn(props.websiteSubdomain, PrimaryDomain)}
    /\ \A d \in RedirectDists :
         CertNames(Cert(d.certificate)) =
           {ApexOf(d), Fqdn(props.websiteSubdomain, ApexOf(d))}

\* C8 amended: each distribution has a certificate of its own; the content
\* certificate covers exactly websiteDomain, the certificate of a secondary
\* apex's redirect covers exactly the apex and websiteSubdomain.apex, and the
\* certificate of the primary apex's redirect covers exactly the primary apex.
C8_CertificateScopes ==
  (Redirecting /\ ValidConfig) =>
    /\ \A d1, d2 \in tree.dists : d1.certificate = d2.certificate => d1 = d2
    /\ \A d \in ContentDists :
         CertNames(Cert(d.certificate)) = {Fqdn(props.websiteSubdomain, PrimaryDomain)}
    /\ \A d \in RedirectDists :
         CertNames(Cert(d.certificate)) =
           IF ApexOf(d) = PrimaryDomain THEN {PrimaryDomain}
           ELSE {ApexOf(d), Fqdn(props.websiteSubdomain, ApexOf(d))}

\* a finished plan with the three kinds of certificate
C8_Witness ==
  /\ Done /\ Redirecting /\ ValidConfig
  /\ ContentDists # {}
  /\ \E d \in RedirectDists : ApexOf(d) = PrimaryDomain
  /\ \E d \in RedirectDists : ApexOf(d) \in SecondaryDomains

----------------------------------------------------------------------------
(* C9 *)

\* primary example.com, secondary [example.net], websiteSubdomain www
Scenario ==
  /\ Redirecting
  /\ PrimaryDomain = "example.com"
  /\ Len(ConfigDomains) = 2
  /\ Range(ConfigDomains) = {"example.com", "example.net"}
  /\ props.websiteSubdomain = "www"

\* C9: the finished plan of the scenario has the alias www.example.com to the
\* content distribution, a redirect distribution for example.com alone and one
\* for example.net and www.example.net, both redirecting to www.example.com,
\* and exactly the certificate scopes {www.example.com}, {example.com} and
\* {example.net, www.example.net}.
C9_Scenario ==
  (Done /\ Scenario) =>
    /\ \E a \in tree.aliases, d \in ContentDists :
         a.recordName = "www.example.com" /\ a.target = d.id
    /\ {NameSet(d) : d \in ContentDists} = {{"www.example.com"}}
    /\ {NameSet(d) : d \in RedirectDists} =
         {{"example.com"}, {"example.net", "www.example.net"}}
    /\ \A d \in RedirectDists : Bucket(d.origin).websiteRedirect = "www.example.com"
    /\ Cardinality(tree.certs) = 3
    /\ {CertNames(c) : c \in tree.certs} =
         {{"www.example.com"}, {"example.com"}, {"example.net", "www.example.net"}}

\* the scenario's plan, finished
C9_Witness ==
  /\ Done /\ Scenario
  /\ Cardinality(tree.dists) = 3

----------------------------------------------------------------------------
(* C10 *)

\* a record name with a trailing dot is absolute
Absolute(name) == Len(name) > 0 /\ SubSeq(name, Len(name), Len(name)) = "."

\* the name a configured record is created at
RecordFqdn(r) ==
  IF ~Truthy(r.recordName) THEN r.zone
  ELSE IF props.variant = "keyed" /\ ~Absolute(r.recordName)
       THEN Fqdn(r.recordName, r.zone)
       ELSE r.recordName

\* the explicit records at the name reserved for the website
ReservedRecords ==
  { r \in tree.records :
      /\ r.zone = PrimaryDomain
      /\ RecordFqdn(r) = Fqdn(props.websiteSubdomain, PrimaryDomain) }

\* C10: a configuration with an explicit MX, TXT or CNAME record at
\* websiteSubdomain of the primary apex fails: no finished plan holds both
\* that record and the website alias.
C10_ReservedSubdomainRejected ==
  ~ /\ Done /\ Redirecting /\ ValidConfig
    /\ ReservedRecords # {}
    /\ \E a \in tree.aliases :
         a.recordName = Fqdn(props.websiteSubdomain, PrimaryDomain)

----------------------------------------------------------------------------
(* C11 *)

\* the apex domains the configuration lists more than once
DuplicatedDomains ==
  { ConfigDomains[i] : i \in { k \in 1..Len(ConfigDomains) :
      \E j \in 1..Len(ConfigDomains) : j # k /\ ConfigDomains[j] = ConfigDomains[k] } }

\* C11: a configuration that lists an apex domain twice (the primary among
\* the secondaries, or a secondary twice) never completes construction: the
\* first section of the constructor throws, the error names a duplicated
\* domain, and no plan is emitted.
C11_DuplicateDomainFails ==
  DuplicatedDomains # {} =>
    /\ pc \in {"start", "failed"}
    /\ pc = "failed" => tree.failed /\ tree.error \in DuplicatedDomains
    /\ plan = NoPlan

\* a construction of the per-subdomain variant that failed on a repeated
\* secondary domain
C11_Witness ==
  /\ pc = "failed"
  /\ tree.error \in DuplicatedDomains
  /\ tree.error # PrimaryDomain
  /\ props.variant = "subdomain"

----------------------------------------------------------------------------
(* C12 *)

\* the property of DomainRecords that holds the records of a kind
KindProperty(kind) ==
  CASE kind = "mx" -> "MxRecords" [] kind = "cname" -> "CnameRecords"
    [] kind = "txt" -> "TxtRecords"

\* the property of DomainConfig that holds the record map of a kind
KindMap(kind) ==
  CASE kind = "mx" -> "subdomainMxRecords" [] kind = "cname" -> "subdomainCnameRecords"
    [] kind = "txt" -> "subdomainTxtRecords"

\* the explicitly configured records of the props: kind, the apex they are
\* configured under, the subdomain they name, values and TTL
Configured ==
  CASE props.variant = "keyed" ->
         UNION { { [ kind |-> k, apex |-> props.domainConfigs[i].domain,
                     subdomain |-> props.domainConfigs[i][KindProperty(k)][j].recordName,
                     data |-> props.domainConfigs[i][KindProperty(k)][j].data,
                     ttl |-> props.domainConfigs[i][KindProperty(k)][j].ttl ] :
                   j \in 1..Len(props.domainConfigs[i][KindProperty(k)]) } :
                 i \in 1..Len(props.domainConfigs), k \in RecordKinds }
    [] props.variant = "subdomain" ->
         UNION { { [ kind |-> k, apex |-> allDomainConfigs[i].domain,
                     subdomain |-> allDomainConfigs[i][KindMap(k)][j].subdomain,
                     data |-> allDomainConfigs[i][KindMap(k)][j].data,
                     ttl |-> allDomainConfigs[i][KindMap(k)][j].ttl ] :
                   j \in 1..Len(allDomainConfigs[i][KindMap(k)]) } :
                 i \in 1..Len(allDomainConfigs), k \in RecordKinds }
    [] props.variant = "single" ->
         UNION { { [ kind |-> k, apex |-> props.domain,
                     subdomain |-> props.records[KindProperty(k)][j].recordName,
                     data |-> props.records[KindProperty(k)][j].data,
                     ttl |-> props.records[KindProperty(k)][j].ttl ] :
                   j \in 1..Len(props.records[KindProperty(k)]) } :
                 k \in RecordKinds }
    [] OTHER -> {}

\* the configuration names a record at the subdomain reserved for the website
ReservedConfigured ==
  /\ Redirecting
  /\ \E c \in Configured :
       c.apex = PrimaryDomain /\ Truthy(c.subdomain) /\ c.subdomain = props.websiteSubdomain

\* C12: a configuration with a configuration error (a record at the reserved
\* subdomain, an apex domain listed twice) is detected while the plan is
\* constructed, so that no plan is ever emitted for it.
C12_ConfigErrorsAbort ==
  (ReservedConfigured \/ DuplicatedDomains # {}) => plan = NoPlan

\* the half of C12 that the constructor keeps: a construction that threw has
\* emitted nothing, and what was emitted is a tree whose constructor returned
PlanIsWhole == (pc = "failed" => planProps # props) /\ ~plan.failed

----------------------------------------------------------------------------
(* C13 *)

\* C13: construction is deterministic: when the app is run again on the same
\* props, the tree the constructor returns with is the plan emitted before,
\* construct for construct and value for value, the mail-archive attachment
\* and its physical resource id included.
C13_Deterministic ==
  (Done /\ planProps = props) => tree = plan

----------------------------------------------------------------------------
(* C14 *)

\* the record name a configured record is to be emitted under: the configured
\* recordName as it is, or, where records are keyed by subdomain, the name of
\* (subdomain, apex)
ConfiguredName(c) ==
  IF props.variant = "subdomain"
  THEN (IF Truthy(c.subdomain) THEN Fqdn(c.subdomain, c.apex) ELSE c.apex)
  ELSE c.subdomain

\* record `r` of the plan is configured record `c`, emitted in c's zone
EmittedAs(c, r) ==
  /\ r.kind = c.kind /\ r.zone = c.apex
  /\ r.recordName = ConfiguredName(c)
  /\ r.data = c.data /\ r.ttl = c.ttl

----------------------------------------------------------------------------
(* C15 *)

\* the input constraints in full: a valid configuration that names no record
\* at the subdomain reserved for the website
MeetsInputConstraints == Redirecting /\ ValidConfig /\ ~ReservedConfigured

\* C15: for every configuration that meets the input constraints the naming is
\* collision-free: no construct id is asked for twice, so the constructor
\* never throws on a duplicate, and the bucket names are pairwise distinct.
C15_CollisionFree ==
  MeetsInputConstraints =>
    /\ ~tree.failed
    /\ \A b1, b2 \in tree.buckets : b1.bucketName = b2.bucketName => b1 = b2

----------------------------------------------------------------------------
(* C16 *)

\* the hosts of the README's "URLs expected to work": each configured domain
\* and www.<domain>
ExpectedHosts ==
  Range(ConfigDomains) \cup {Fqdn("www", domain) : domain \in Range(ConfigDomains)}

\* the host the website is served on
WebsiteHost == Fqdn("www", PrimaryDomain)

\* the distributions a request for `host` is routed to: those an alias record
\* of that name points to and that answer for the name
RoutedTo(host) ==
  { d \in tree.dists :
      /\ host \in NameSet(d)
      /\ \E a \in tree.aliases : a.recordName = host /\ a.target = d.id }

\* a request for `host` is answered with the website's content
Served(host) ==
  /\ Cardinality(RoutedTo(host)) = 1
  /\ \A d \in RoutedTo(host) : ~IsRedirect(d) /\ WebsiteHost \in NameSet(d)

\* a request for `host` is redirected once, to a host that serves the content
RedirectedOnce(host) ==
  /\ Cardinality(RoutedTo(host)) = 1
  /\ \A d \in RoutedTo(host) :
       IsRedirect(d) /\ Served(Bucket(d.origin).websiteRedirect)

\* the configurations the README describes: valid, with the website on www
ReadmeConfig ==
  /\ ValidConfig
  /\ props.variant \in {"keyed", "subdomain", "single", "shared"}
  /\ Redirecting => props.websiteSubdomain = "www"

\* C16: in the finished plan every host of the README's list has an alias
\* record to a distribution that lists it, and a request for it is served the
\* website's content at once or after exactly one redirect; every redirect
\* distribution of the plan redirects to a host that serves the content, so
\* no chain loops or ends at a host without a distribution.
C16_UrlsWork ==
  (Done /\ ReadmeConfig) =>
    /\ \A host \in ExpectedHosts : Served(host) \/ RedirectedOnce(host)
    /\ Served(WebsiteHost)
    /\ \A d \in RedirectDists : Served(Bucket(d.origin).websiteRedirect)

\* a finished plan where a secondary domain's www host is redirected once
C16_Witness ==
  /\ Done /\ ReadmeConfig /\ Redirecting
  /\ \E apex \in SecondaryDomains : RedirectedOnce(Fqdn("www", apex))

----------------------------------------------------------------------------
(* C17 *)

\* distribution `d` logs to a bucket of the plan that expires its objects
\* after 30 days and blocks all public access
LogsToExpiringBucket(d) ==
  /\ d.logBucket # Undefined
  /\ \E b \in tree.buckets :
       b.id = d.logBucket /\ b.expirationDays = 30 /\ b.blockPublicAccess

\* the variants whose constructor creates an access-log bucket
Logging == props.variant \in {"keyed", "subdomain", "single"}

----------------------------------------------------------------------------
(* C18 *)

\* the address records of a type that the construct created
AddressRecordsOfType(type) == {r \in tree.aliases : r.type = type}

\* C18: AddressRecords creates exactly one A record and no AAAA record for
\* 'ipv4-only', exactly one AAAA record and no A record for 'ipv6-only', one
\* of each for 'dual-stack' and for an omitted ipVersion; every record has the
\* zone, the domainName and the target of the props, and there is at least one.
C18_AddressRecords ==
  (props.variant = "addressRecords" /\ pc # "start") =>
    /\ Done
    /\ Cardinality(AddressRecordsOfType("A")) =
         IF props.ipVersion \in {"ipv4-only", "dual-stack", Undefined} THEN 1 ELSE 0
    /\ Cardinality(AddressRecordsOfType("AAAA")) =
         IF props.ipVersion \in {"ipv6-only", "dual-stack", Undefined} THEN 1 ELSE 0
    /\ tree.aliases = AddressRecordsOfType("A") \cup AddressRecordsOfType("AAAA")
    /\ tree.aliases # {}
    /\ \A r \in tree.aliases :
         /\ r.zone = props.zone
         /\ r.recordName = props.domainName
         /\ r.target = props.target

\* the construct built with ipVersion omitted: an A and an AAAA record
C18_Witness ==
  /\ Done /\ props.variant = "addressRecords"
  /\ props.ipVersion = Undefined
  /\ Cardinality(tree.aliases) = 2

----------------------------------------------------------------------------
(* C19 *)

\* C19: createSesSqsDestination creates the queue's alarm exactly when
\* props.alarm is not false (omitted counts as true); in either case it
\* creates the topic, the event destination of the topic for the event, the
\* queue and the queue's subscription to the topic, and returns the topic.
C19_SesSqsDestination ==
  (props.variant = "sesSqsDestination" /\ pc # "start") =>
    /\ Done
    /\ (tree.alarms # {}) <=> (props.alarm # <<FALSE>>)
    /\ Cardinality(tree.alarms) <= 1
    /\ \A a \in tree.alarms :
         /\ \E q \in tree.queues :
              a.alarmName = q.queueName \o " at least one message visible"
         /\ a.actions = {"AlarmTopic"}
    /\ Cardinality(tree.topics) = 1
    /\ Cardinality(tree.queues) = 1
    /\ Cardinality(tree.destinations) = 1
    /\ \A t \in tree.topics :
         /\ ret = t.id
         /\ t.subscriptions = {q.id : q \in tree.queues}
         /\ \A d \in tree.destinations :
              /\ d.topic = t.id
              /\ d.events = {props.event}
              /\ d.configurationSet = props.configurationSet

\* a call with alarm omitted, which created the alarm and returned the topic
C19_Witness ==
  /\ Done /\ props.variant = "sesSqsDestination"
  /\ props.alarm = Omitted
  /\ tree.alarms # {}
  /\ ret # Undefined

----------------------------------------------------------------------------
(* C20 *)

\* the subdomain values the constructors join to a domain
JoinedSubdomains == Subdomains \cup RecordNames \cup {"mail"}

\* C20: domainJoin of a subdomain and a domain is subdomain.domain when the
\* subdomain is neither undefined nor empty, and the bare domain otherwise;
\* so websiteDomain of the keyed variant is websiteSubdomain.primaryDomain, or
\* the bare apex for an empty websiteSubdomain, every configured record of the
\* keyed and single-domain variants is created under the id of its joined
\* name, and no name these variants alias starts with a dot; getRecordName of
\* the per-subdomain variant returns the value of domainJoin([subdomain, domain]).
C20_DomainJoin ==
  /\ \A domain \in Range(ConfigDomains), subdomain \in JoinedSubdomains :
       /\ domainJoin(<<subdomain, domain>>) =
            IF subdomain \in {Undefined, ""} THEN domain
            ELSE subdomain \o "." \o domain
       /\ getRecordName(domain, subdomain) = domainJoin(<<subdomain, domain>>)
  /\ props.variant = "keyed" =>
       websiteDomain = IF props.websiteSubdomain = "" THEN props.primaryDomain
                       ELSE Fqdn(props.websiteSubdomain, props.primaryDomain)
  /\ props.variant \in {"keyed", "single"} =>
       /\ \A a \in tree.aliases : SubSeq(a.recordName, 1, 1) # "."
       /\ \A r \in tree.records :
            (\E c \in Configured : EmittedAs(c, r)) =>
              r.id = (IF r.recordName \in {Undefined, ""} THEN r.zone
                      ELSE Fqdn(r.recordName, r.zone)) \o "-" \o r.kind

\* the keyed constructor with an empty websiteSubdomain has named the site
\* bucket after the bare apex
C20_Witness ==
  /\ props.variant = "keyed"
  /\ props.websiteSubdomain = ""
  /\ \E b \in tree.buckets :
       b.websiteRedirect = Undefined /\ b.bucketName = props.primaryDomain

----------------------------------------------------------------------------
(* C21 *)

\* C21: in the keyed variant, for every props value the type accepts, the
\* finished plan has web hosting, the primary domain's redirect and the home
\* email identity exactly once each, and the host every redirect bucket
\* redirects to is a name that a content distribution of the plan answers for
\* and that has an alias record to that distribution.
C21_PrimaryInfraOnce ==
  (Done /\ props.variant = "keyed") =>
    /\ Cardinality(ContentDists) = 1
    /\ Cardinality({d \in RedirectDists : ApexOf(d) = props.primaryDomain}) = 1
    /\ Cardinality({o \in tree.others : o.id = "Email-" \o homeDomain}) = 1
    /\ \A b \in tree.buckets :
         b.websiteRedirect # Undefined =>
           \E d \in ContentDists, a \in tree.aliases :
             /\ b.websiteRedirect \in NameSet(d)
             /\ a.recordName = b.websiteRedirect /\ a.target = d.id

----------------------------------------------------------------------------
(* C22 *)

----------------------------------------------------------------------------
(* C23 *)

\* the CloudWatch alarms a finished single-domain construction must hold: the
\* four SES account alarms, one certificate expiry alarm per certificate, one
\* queue alarm per SES event queue created with an alarm
ExpectedAlarmIds ==
  {n \o " Alarm" : n \in Range(alarmNames)}
  \cup {Str(c.domainName) \o "-cert Expiry Alarm" : c \in tree.certs}
  \cup {removePeriods(homeDomain_single) \o "-mail-" \o e \o "-alarm" :
          e \in {REJECT, BOUNCE, RENDERING_FAILURE, COMPLAINT}}

\* C23: in the single-domain variant alarmActions is assigned before any alarm
\* is created (no alarm exists while it is unassigned, and no construction
\* stops on spreading an unassigned alarmActions), and every CloudWatch alarm
\* of the stack (the four SES account alarms, each certificate expiry alarm,
\* each SES event queue alarm) carries the SNS alarm topic as its action.
C23_AlarmActionsFirst ==
  props.variant = "single" =>
    /\ tree.error # "TypeError"
    /\ tree.alarms # {} =>
         tree.alarmActions = <<{"AlarmTopic"}>> /\ "AlarmTopic" \in tree.ids
    /\ \A a \in tree.alarms : a.actions = {"AlarmTopic"}
    /\ Done => {a.id : a \in tree.alarms} = ExpectedAlarmIds

\* a finished single-domain construction with its ten alarms, each notifying
\* the alarm topic
C23_Witness ==
  /\ Done /\ props.variant = "single"
  /\ Cardinality(tree.alarms) = 10
  /\ Cardinality(tree.certs) = 2
  /\ \A a \in tree.alarms : a.actions = {"AlarmTopic"}

----------------------------------------------------------------------------
(* C24 *)

\* the redirect topology of a tree: every distribution by the names it answers
\* for, the names of its certificate and the host its origin bucket redirects
\* to, and every alias record by its zone and name
Topology(t) ==
  LET cert(d)   == CHOOSE c \in t.certs : c.id = d.certificate
      origin(d) == CHOOSE b \in t.buckets : b.id = d.origin
  IN  [ dists   |-> { [ domainNames             |-> d.domainNames,
                        domainName              |-> cert(d).domainName,
                        subjectAlternativeNames |-> cert(d).subjectAlternativeNames,
                        target                  |-> origin(d).websiteRedirect ] :
                      d \in t.dists },
        aliases |-> { <<a.zone, a.recordName>> : a \in t.aliases } ]

\* the names the redirect distribution of `domain` answers for in tree `t`
RedirectNames(t, domain) ==
  { d.domainNames : d \in {x \in t.dists : x.domainNames[1] = domain} }

\* C24: for the same primary domain, secondary domains and (non-empty)
\* websiteSubdomain, the tree the keyed variant builds has the redirect
\* topology of the plan the per-subdomain variant emitted: the same
\* distributions by their domain names, certificate names and redirect target,
\* and the same alias record names per zone; in both, the primary apex has no
\* redirecting subdomain and each secondary apex has the website subdomain.
C24_SameRedirectTopology ==
  ( /\ Done /\ props.variant = "keyed"
    /\ planProps.variant = "subdomain" /\ props = keyedConfig(planProps)
    /\ props.websiteSubdomain # "" ) =>
    /\ Topology(tree) = Topology(plan)
    /\ \A t \in {tree, plan} :
         /\ RedirectNames(t, props.primaryDomain) = {<<props.primaryDomain>>}
         /\ \A i \in 1..Len(props.domainConfigs) :
              LET domain == props.domainConfigs[i].domain
              IN  domain # props.primaryDomain =>
                    RedirectNames(t, domain) =
                      {<<domain, Fqdn(props.websiteSubdomain, domain)>>}

\* the keyed variant has finished on the configuration of an emitted
\* per-subdomain plan with two secondary domains and a configured record
C24_Witness ==
  /\ Done /\ props.variant = "keyed"
  /\ planProps.variant = "subdomain" /\ props = keyedConfig(planProps)
  /\ props.websiteSubdomain # ""
  /\ Len(props.domainConfigs) = 3
  /\ tree.records # {}
  /\ Cardinality(Topology(plan).dists) = 4
  /\ Cardinality(Topology(tree).aliases) = 6

----------------------------------------------------------------------------
(* C25 *)

\* the actions of the statement that reads and changes record sets
RecordSetActions ==
  {"route53:ChangeResourceRecordSets", "route53:ListResourceRecordSets",
   "route53:GetChange"}

\* the resources on which the policies of the tree allow `action`
AllowedOn(action) ==
  UNION { st.resources :
            st \in { x \in UNION {Range(p.statements) : p \in tree.policies} :
                       action \in x.actions } }

\* something of the home subdomain's email is in place: its identity, or a
\* record in the home zone
HomeEmailPlaced ==
  \/ \E o \in tree.others : o.id = "Email-" \o homeDomain_single
  \/ \E r \in tree.records : r.zone = homeDomain_single

\* C25: in the single-domain variant the DNS management user may change, list
\* and get changes of record sets only on the hosted zone passed to
\* dnsManagementIamUser, the home subdomain's zone, and on change resources;
\* the apex domain's zone is never among them; and the home zone exists and is
\* delegated from the apex zone before any of the email is placed in it.
C25_DnsUserScope ==
  props.variant = "single" =>
    /\ \A p \in tree.policies :
         /\ p.user = "iam-user-" \o homeDomain_single \o "-dns-management"
         /\ \A action \in RecordSetActions :
              /\ AllowedOn(action) =
                   {hostedZoneArn(homeDomain_single), "arn:aws:route53:::change/*"}
              /\ hostedZoneArn(props.domain) \notin AllowedOn(action)
              /\ "*" \notin AllowedOn(action)
    /\ Done => Cardinality(tree.policies) = 1
    /\ HomeEmailPlaced =>
         /\ hostedZone(homeDomain_single) \in tree.zones
         /\ zoneDelegation(props.domain, homeDomain_single) \in tree.records
    /\ tree.policies # {} => HomeEmailPlaced

\* a finished single-domain construction: the policy is attached, the home zone
\* is delegated from the apex zone and holds the DMARC record
C25_Witness ==
  /\ Done /\ props.variant = "single"
  /\ tree.policies # {}
  /\ AllowedOn("route53:ChangeResourceRecordSets")
       = {hostedZoneArn(homeDomain_single), "arn:aws:route53:::change/*"}
  /\ \E r \in tree.records : r.zone = homeDomain_single /\ r.recordName = "_dmarc"
  /\ \E r \in tree.records : r.kind = "ns" /\ r.zone = props.domain

----------------------------------------------------------------------------
(* C26 *)

\* the five events createFromEmailInfra registers a destination for
SesEvents == {REJECT, BOUNCE, RENDERING_FAILURE, COMPLAINT, DELIVERY_DELAY}

\* the id prefix of what createSesSqsDestination creates for an event of the
\* home domain
SesBase(event) == removePeriods(homeDomain_single) \o "-mail-" \o event

\* the alarms of the SES event queues, among all the alarms of the tree
QueueAlarms ==
  {a \in tree.alarms : \E e \in SesEvents : a.id = SesBase(e) \o "-alarm"}

\* C26: once createFromEmailInfra has run in the single-domain variant, the
\* default configuration set has exactly five SES event destinations, one for
\* each of REJECT, BOUNCE, RENDERING_FAILURE, COMPLAINT and DELIVERY_DELAY; each
\* has a topic, a queue and a destination of its own, whose construct ids and
\* queue names differ from event to event; and every event but DELIVERY_DELAY
\* has a queue alarm, DELIVERY_DELAY has none.
C26_FiveDestinations ==
  (props.variant = "single" /\ pc \in {"user", "done", "synthesized"}) =>
    /\ Cardinality(tree.destinations) = 5
    /\ Cardinality(tree.topics) = 5
    /\ Cardinality(tree.queues) = 5
    /\ Cardinality({q.queueName : q \in tree.queues}) = 5
    /\ \A e \in SesEvents :
         /\ \E d \in tree.destinations :
              /\ d.id = SesBase(e) \o "-destination"
              /\ d.events = {e}
              /\ d.topic = SesBase(e) \o "-destination-topic"
              /\ d.configurationSet = homeDomain_single \o "-default-configuration-set"
         /\ \E t \in tree.topics :
              /\ t.id = SesBase(e) \o "-destination-topic"
              /\ t.subscriptions = {SesBase(e) \o "-destination-queue"}
         /\ \E q \in tree.queues :
              /\ q.id = SesBase(e) \o "-destination-queue"
              /\ q.queueName = SesBase(e) \o "-destination-queue"
         /\ (\E a \in tree.alarms : a.id = SesBase(e) \o "-alarm") <=> e # DELIVERY_DELAY
    /\ \A e1, e2 \in SesEvents :
         e1 # e2 =>
           {SesBase(e1) \o x : x \in {"-destination", "-destination-topic",
                                       "-destination-queue", "-alarm"}}
           \cap {SesBase(e2) \o x : x \in {"-destination", "-destination-topic",
                                            "-destination-queue", "-alarm"}} = {}
    /\ Cardinality(QueueAlarms) = 4

\* createFromEmailInfra has returned: the five destinations and the four queue
\* alarms are in the tree, and the delivery delay queue has no alarm
C26_Witness ==
  /\ props.variant = "single" /\ pc = "user"
  /\ ~tree.failed
  /\ Cardinality(tree.destinations) = 5
  /\ Cardinality(QueueAlarms) = 4
  /\ \E q \in tree.queues : q.id = SesBase(DELIVERY_DELAY) \o "-destination-queue"
  /\ ~\E a \in tree.alarms : a.id = SesBase(DELIVERY_DELAY) \o "-alarm"

=============================================================================
